---------------------------- MODULE Spec2Model ----------------------------
(***************************************************************************)
(* State-machine model of src/server.js, the authoritative server of a     *)
(* real-time multiplayer ball game: the room registry (gameRooms), the     *)
(* session directory (playerSockets), the per-room simulation engine       *)
(* (class GameRoom), the tick scheduler (gameLoops / startGameLoop) and    *)
(* the periodic empty-room sweep.                                          *)
(*                                                                         *)
(* Representation.                                                         *)
(*  - Socket ids are the integers 1, 2, ... handed out in connection       *)
(*    order (socket.io ids are fresh per connection); 0 stands for null.   *)
(*  - A Map is kept in insertion order: players is a sequence of player    *)
(*    records, Map.set on a present key replaces the value in place.       *)
(*  - Date.now() is now, in milliseconds; the clock moves in whole         *)
(*    seconds.  A room id is the timestamp t of the string `room-<t>`.     *)
(*  - JavaScript numbers are modelled in fixed point: positions are whole  *)
(*    field units, ball velocities are whole hundredths (vx = 100 is the   *)
(*    JavaScript value 1.0), products are rounded down.                    *)
(*  - A setInterval timer is a handle in timers.  The 60-per-second loop   *)
(*    is followed at the grain of the clock: a live timer comes due when   *)
(*    the clock moves and fires at most once per second of the clock, so   *)
(*    the time delta of a step is a whole number of seconds.               *)
(*  - env fixes, for a run, the inputs its clients send (see Envs).        *)
(*  - hist holds history (ghost) values the claims speak about and the     *)
(*    program does not store: the count of successful joins of a room,     *)
(*    the last thrower of the ball.                                        *)
(***************************************************************************)
EXTENDS Integers, Sequences, FiniteSets, TLC

VARIABLES
    env,            \* the inputs the environment offers in this run
    now,            \* Date.now(), ms
    nextSocket,     \* id the next connection gets
    sockets,        \* connected sockets
    gameRooms,      \* room id -> GameRoom        (Map gameRooms)
    playerSockets,  \* socket id -> {roomId, playerId}  (Map playerSockets)
    gameLoops,      \* room id -> interval handle (Map gameLoops)
    timers,         \* live setInterval timers: handle -> [room, due]
    ack,            \* result handed to the last join-room callback
    hist            \* room id -> history values (ghost)

vars == <<env, now, nextSocket, sockets, gameRooms, playerSockets,
          gameLoops, timers, ack, hist>>

---------------------------------------------------------------------------
(* Program constants                                                       *)
GAME_WIDTH == 1024
GAME_HEIGHT == 600
BASKET_X == GAME_WIDTH - 100
BASKET_Y == 150
CENTER_X == GAME_WIDTH \div 2
CENTER_Y == GAME_HEIGHT \div 2
PLAYER_SPEED == 5
BALL_SPEED == 7
BALL_RADIUS == 10
MaxPlayers == 6
BasketRadius == 30
PickupRadius == 35
MinPlayersToStart == 2
TeamSize == 3
PointsPerBasket == 2
MsPerSecond == 1000
Hundredths == 100

(* Bounds of the model                                                     *)
CrowdSockets == 7
PlaySockets == 2
LobbySockets == 2
TurnoverSockets == 2
TurnoverClock == 2
MaxClock == 3
MatchSockets == 2
MatchClock == 1
MaxJoinNo == 7
MaxHandles == 2
ShotSockets == 2
ShotClock == 2
BasketSockets == 2
BasketClock == 3
ForfeitSockets == 2
ForfeitClock == 2

NoPlayer == 0
NoTime == -1

---------------------------------------------------------------------------
(* Inputs                                                                  *)
PlayerNames == {"ann"}

Directions == {"0", "pi/2", "pi"}

Cos(d) == CASE d = "0" -> 1 [] d = "pi/2" -> 0 [] d = "pi" -> -1
Sin(d) == CASE d = "0" -> 0 [] d = "pi/2" -> 1 [] d = "pi" -> 0

MoveInputs ==
    { [x |-> 500, y |-> 300, vx |-> 0, vy |-> 0],
      [x |-> 900, y |-> 140, vx |-> 5, vy |-> 0] }

\* the move that puts a player next to the ball at centre field
PickupMoves == { [x |-> 500, y |-> 300, vx |-> 0, vy |-> 0] }

ThrowInputs ==
    { [direction |-> "0", power |-> 100],
      [direction |-> "pi", power |-> 150] }

\* throws of a run of shots: full power, half power, no power, a
\* negative power
ShotInputs ==
    { [direction |-> "0", power |-> 100],
      [direction |-> "pi/2", power |-> 50],
      [direction |-> "0", power |-> 0],
      [direction |-> "pi", power |-> -50] }

\* the throw along the x axis at full power
BasketShots == { [direction |-> "0", power |-> 100] }

AllIntents ==
    {"join-room", "player-move", "throw-ball", "start-game", "pause-game",
     "resume-game", "leave-room", "disconnect", "post-rooms"}

\* Eight kinds of run.
\*   crowd     sockets fill one room: each joins once, as it connects, and
\*             goes away by disconnecting
\*   play      a game in one room: moves, throws and physics steps
\*   turnover  players pick the ball up, leave and come back
\*   lobby     sockets move between two rooms, rooms are posted and swept
\*   match     a game is started, paused and resumed while players come
\*             and go
\*   shot      players pick the ball up at centre field and throw it
\*   basket    players carry the ball to the basket and throw it in, each
\*             socket joining before the next connects
\*   forfeit   players pick the ball up at centre field and leave or
\*             disconnect with it
\* Fields:
\*   idle      bounds the connected sockets without a directory entry at the
\*             time a further socket connects
\*   rejoin    whether a socket with a directory entry sends join-room
\*   maxJoins  where the history count of a room's joins stops counting
CrowdEnv ==
    [name |-> "crowd", sockets |-> CrowdSockets, idle |-> 0, rooms |-> {0},
     intents |-> {"join-room", "disconnect"}, rejoin |-> FALSE,
     moves |-> {}, throws |-> {}, maxClock |-> 0, maxJoins |-> MaxJoinNo]
PlayEnv ==
    [name |-> "play", sockets |-> PlaySockets, idle |-> PlaySockets, rooms |-> {0},
     intents |-> {"join-room", "player-move", "throw-ball", "start-game"},
     rejoin |-> FALSE,
     moves |-> MoveInputs, throws |-> ThrowInputs, maxClock |-> MaxClock,
     maxJoins |-> 0]
TurnoverEnv ==
    [name |-> "turnover", sockets |-> TurnoverSockets, idle |-> TurnoverSockets,
     rooms |-> {0},
     intents |-> {"join-room", "player-move", "start-game", "leave-room"},
     rejoin |-> TRUE,
     moves |-> PickupMoves, throws |-> {}, maxClock |-> TurnoverClock,
     maxJoins |-> 0]
LobbyEnv ==
    [name |-> "lobby", sockets |-> LobbySockets, idle |-> LobbySockets,
     rooms |-> {0, MsPerSecond},
     intents |-> {"join-room", "leave-room", "disconnect", "post-rooms"},
     rejoin |-> TRUE,
     moves |-> {}, throws |-> {}, maxClock |-> 0,
     maxJoins |-> 1]
MatchEnv ==
    [name |-> "match", sockets |-> MatchSockets, idle |-> MatchSockets,
     rooms |-> {0},
     intents |-> {"join-room", "start-game", "pause-game", "resume-game",
                  "leave-room", "disconnect", "post-rooms"},
     rejoin |-> TRUE,
     moves |-> {}, throws |-> {}, maxClock |-> MatchClock,
     maxJoins |-> 1]
ShotEnv ==
    [name |-> "shot", sockets |-> ShotSockets, idle |-> ShotSockets,
     rooms |-> {0},
     intents |-> {"join-room", "player-move", "throw-ball", "start-game"},
     rejoin |-> FALSE,
     moves |-> PickupMoves, throws |-> ShotInputs, maxClock |-> ShotClock,
     maxJoins |-> 0]
BasketEnv ==
    [name |-> "basket", sockets |-> BasketSockets, idle |-> 0,
     rooms |-> {0},
     intents |-> {"join-room", "player-move", "throw-ball", "start-game"},
     rejoin |-> FALSE,
     moves |-> MoveInputs, throws |-> BasketShots, maxClock |-> BasketClock,
     maxJoins |-> 0]
ForfeitEnv ==
    [name |-> "forfeit", sockets |-> ForfeitSockets, idle |-> ForfeitSockets,
     rooms |-> {0},
     intents |-> {"join-room", "player-move", "start-game", "leave-room",
                  "disconnect"},
     rejoin |-> FALSE,
     moves |-> PickupMoves, throws |-> {}, maxClock |-> ForfeitClock,
     maxJoins |-> 0]
Envs ==
    {CrowdEnv, PlayEnv, TurnoverEnv, LobbyEnv, MatchEnv, ShotEnv, BasketEnv,
     ForfeitEnv}

---------------------------------------------------------------------------
(* Arithmetic                                                              *)
Min(a, b) == IF a < b THEN a ELSE b
Max(a, b) == IF a > b THEN a ELSE b
Abs(a) == IF a < 0 THEN -a ELSE a
Sq(a) == a * a
\* Math.sqrt(dx^2 + dy^2) < rad, for whole dx, dy, rad
Within(x1, y1, x2, y2, rad) == Sq(x1 - x2) + Sq(y1 - y2) < Sq(rad)

---------------------------------------------------------------------------
(* Map of players, in insertion order                                      *)
Ids(players) == {players[i].id : i \in 1..Len(players)}
Has(players, id) == id \in Ids(players)
IndexOf(players, id) == CHOOSE i \in 1..Len(players) : players[i].id = id
Get(players, id) == players[IndexOf(players, id)]
MapSet(players, id, p) ==
    IF Has(players, id)
    THEN [players EXCEPT ![IndexOf(players, id)] = p]
    ELSE Append(players, p)
MapDelete(players, id) == SelectSeq(players, LAMBDA p : p.id # id)

---------------------------------------------------------------------------
(* class GameRoom                                                          *)
NewBall ==
    [x |-> CENTER_X, y |-> CENTER_Y, vx |-> 0, vy |-> 0,
     owner |-> NoPlayer, inBasket |-> FALSE]

NewRoom(roomId, t) ==
    [id |-> roomId,
     players |-> <<>>,
     ball |-> NewBall,
     score |-> [team1 |-> 0, team2 |-> 0],
     gameState |-> "waiting",
     lastUpdate |-> t,
     gameStartTime |-> NoTime,
     maxPlayers |-> MaxPlayers]

\* a team test that puts a fourth player on team1
TeamForInclusive(size) == IF size <= TeamSize THEN "team1" ELSE "team2"

TeamFor(size) == IF size < TeamSize THEN "team1" ELSE "team2"

NewPlayer(playerId, name, size) ==
    [id |-> playerId,
     name |-> name,
     team |-> TeamFor(size),
     x |-> IF TeamFor(size) = "team1" THEN 100 ELSE GAME_WIDTH - 100,
     y |-> CENTER_Y + (size % TeamSize) * 80 - 80,
     vx |-> 0,
     vy |-> 0,
     hasBall |-> FALSE,
     score |-> 0,
     active |-> TRUE]

\* a capacity test that lets one player too many in
CanAddOffByOne(room) == Len(room.players) <= room.maxPlayers

CanAdd(room) == Len(room.players) < room.maxPlayers

\* addPlayer: the room after the call; it returns CanAdd(room)
AddPlayer(room, playerId, name) ==
    IF CanAdd(room)
    THEN [room EXCEPT !.players =
            MapSet(room.players, playerId,
                   NewPlayer(playerId, name, Len(room.players)))]
    ELSE room

\* a removal that forgets the ball
RemovePlayerKeepOwner(room, playerId) ==
    [room EXCEPT !.players = MapDelete(room.players, playerId)]

\* a removal that puts the ball of a leaving owner back at centre field
RemovePlayerResetBall(room, playerId) ==
    [room EXCEPT
        !.players = MapDelete(room.players, playerId),
        !.ball = IF room.ball.owner = playerId THEN NewBall ELSE room.ball]

RemovePlayer(room, playerId) ==
    [room EXCEPT
        !.players = MapDelete(room.players, playerId),
        !.ball.owner = IF room.ball.owner = playerId THEN NoPlayer
                       ELSE room.ball.owner]

UpdatePlayerPosition(room, playerId, x, y, vx, vy) ==
    IF Has(room.players, playerId)
    THEN [room EXCEPT !.players[IndexOf(room.players, playerId)] =
            [@ EXCEPT !.x = Max(0, Min(GAME_WIDTH - 20, x)),
                      !.y = Max(0, Min(GAME_HEIGHT - 20, y)),
                      !.vx = vx,
                      !.vy = vy]]
    ELSE room

ScorePoint(room, playerId) ==
    IF playerId = NoPlayer THEN room
    ELSE IF Has(room.players, playerId)
    THEN LET i == IndexOf(room.players, playerId)
             team == room.players[i].team
         IN [room EXCEPT
                !.score[team] = @ + PointsPerBasket,
                !.players[i].score = @ + PointsPerBasket]
    ELSE room

ResetBall(room) ==
    [room EXCEPT
        !.ball = NewBall,
        !.players = [i \in 1..Len(room.players) |->
                        [room.players[i] EXCEPT !.hasBall = FALSE]]]

\* a throw that forgets to divide the power by 100
ThrowBallUnnormalised(room, direction, power) ==
    IF room.ball.owner # NoPlayer /\ Has(room.players, room.ball.owner)
    THEN LET strength == Min(power, 100) * Hundredths
         IN [room EXCEPT
                !.ball.vx = Cos(direction) * strength,
                !.ball.vy = Sin(direction) * strength,
                !.ball.owner = NoPlayer,
                !.players[IndexOf(room.players, room.ball.owner)].hasBall = FALSE]
    ELSE room

ThrowBall(room, direction, power) ==
    IF room.ball.owner # NoPlayer /\ Has(room.players, room.ball.owner)
    THEN LET strength == (Min(power, 100) * Hundredths) \div 100
         IN [room EXCEPT
                !.ball.vx = Cos(direction) * strength,
                !.ball.vy = Sin(direction) * strength,
                !.ball.owner = NoPlayer,
                !.players[IndexOf(room.players, room.ball.owner)].hasBall = FALSE]
    ELSE room

\* a start test that accepts a single player
CanStartAlone(room) == Len(room.players) >= 1

CanStart(room) == Len(room.players) >= MinPlayersToStart

\* startGame: the room after the call; it returns CanStart(room)
StartGame(room, t) ==
    IF CanStart(room)
    THEN [room EXCEPT !.gameState = "playing",
                      !.gameStartTime = t,
                      !.lastUpdate = t]
    ELSE room

\* lines 100-105: an owned ball follows its owner
FollowOwner(room) ==
    IF Has(room.players, room.ball.owner)
    THEN LET owner == Get(room.players, room.ball.owner)
         IN [room EXCEPT !.ball.x = owner.x + 15, !.ball.y = owner.y + 15]
    ELSE room

\* lines 108-114: position from the old velocity, then gravity and friction
Integrate(b, timeDelta) ==
    [b EXCEPT
        !.x = b.x + ((b.vx * timeDelta * BALL_SPEED) \div Hundredths),
        !.y = b.y + ((b.vy * timeDelta * BALL_SPEED) \div Hundredths),
        !.vx = (b.vx * 98) \div 100,
        !.vy = ((b.vy + 5 * timeDelta * Hundredths) * 98) \div 100]

\* lines 117-132: the four walls, in the order of the code
Walls(b) ==
    LET b1 == IF b.x - BALL_RADIUS < 0
              THEN [b EXCEPT !.x = BALL_RADIUS, !.vx = Abs(b.vx)] ELSE b
        b2 == IF b1.x + BALL_RADIUS > GAME_WIDTH
              THEN [b1 EXCEPT !.x = GAME_WIDTH - BALL_RADIUS, !.vx = -Abs(b1.vx)]
              ELSE b1
        b3 == IF b2.y - BALL_RADIUS < 0
              THEN [b2 EXCEPT !.y = BALL_RADIUS, !.vy = Abs(b2.vy)] ELSE b2
        b4 == IF b3.y + BALL_RADIUS > GAME_HEIGHT
              THEN [b3 EXCEPT !.y = GAME_HEIGHT - BALL_RADIUS,
                              !.vy = -((Abs(b3.vy) * 7) \div 10)]
              ELSE b3
    IN b4

InBasketRange(b) == Within(b.x, b.y, BASKET_X, BASKET_Y, BasketRadius)

\* a basket check that scores and leaves the ball in the basket
BasketCheckNoReset(room) ==
    IF InBasketRange(room.ball)
    THEN LET marked == [room EXCEPT !.ball.inBasket = TRUE]
         IN ScorePoint(marked, marked.ball.owner)
    ELSE room

\* lines 134-144: the basket check of a free ball
BasketCheck(room) ==
    IF InBasketRange(room.ball)
    THEN LET marked == [room EXCEPT !.ball.inBasket = TRUE]
         IN ResetBall(ScorePoint(marked, marked.ball.owner))
    ELSE room

\* lines 106-145: the free ball
FreeFlight(room, timeDelta) ==
    BasketCheck([room EXCEPT !.ball = Walls(Integrate(room.ball, timeDelta))])

InPickupRange(room, i) ==
    Within(room.ball.x, room.ball.y, room.players[i].x, room.players[i].y,
           PickupRadius)

\* a pickup scan without the test for an owner: every player in range
\* takes the ball, the last one is recorded as the owner
PickupScanEveryone(room) ==
    LET near == {i \in 1..Len(room.players) : InPickupRange(room, i)}
    IN IF room.ball.owner = NoPlayer /\ near # {}
       THEN LET i == CHOOSE k \in near : \A j \in near : k >= j
            IN [room EXCEPT
                    !.ball.owner = room.players[i].id,
                    !.players = [j \in 1..Len(room.players) |->
                        IF j \in near
                        THEN [room.players[j] EXCEPT !.hasBall = TRUE]
                        ELSE room.players[j]]]
       ELSE room

\* lines 147-160: the first player in range, in enumeration order, takes a
\* free ball; every later player then sees an owner.
PickupScan(room) ==
    LET near == {i \in 1..Len(room.players) : InPickupRange(room, i)}
    IN IF room.ball.owner = NoPlayer /\ near # {}
       THEN LET i == CHOOSE k \in near : \A j \in near : k <= j
            IN [room EXCEPT !.ball.owner = room.players[i].id,
                            !.players[i].hasBall = TRUE]
       ELSE room

UpdateBall(room, t) ==
    IF room.gameState # "playing" THEN room
    ELSE LET timeDelta == (t - room.lastUpdate) \div MsPerSecond
             stamped == [room EXCEPT !.lastUpdate = t]
         IN PickupScan(IF stamped.ball.owner # NoPlayer
                       THEN FollowOwner(stamped)
                       ELSE FreeFlight(stamped, timeDelta))

---------------------------------------------------------------------------
(* Maps                                                                    *)
EmptyMap == [k \in {} |-> 0]
Put(f, k, v) == [x \in DOMAIN f \cup {k} |-> IF x = k THEN v ELSE f[x]]
Drop(f, k) == [x \in DOMAIN f \ {k} |-> f[x]]

(* History values of a room                                                *)
NewHist == [joins |-> 0, thrower |-> NoPlayer]
HistJoin(h, c) == [h EXCEPT !.joins = Min(h.joins + 1, env.maxJoins)]
HistRemove(h, c) ==
    [h EXCEPT !.thrower = IF h.thrower = c THEN NoPlayer ELSE h.thrower]

---------------------------------------------------------------------------
Init ==
    /\ env \in Envs
    /\ now = 0
    /\ nextSocket = 1
    /\ sockets = {}
    /\ gameRooms = EmptyMap
    /\ playerSockets = EmptyMap
    /\ gameLoops = EmptyMap
    /\ timers = EmptyMap
    /\ ack = "none"
    /\ hist = EmptyMap

\* io.on('connection'): a socket with a fresh id
Connection ==
    /\ nextSocket <= env.sockets
    /\ Cardinality(sockets \ DOMAIN playerSockets) <= env.idle
    /\ sockets' = sockets \cup {nextSocket}
    /\ nextSocket' = nextSocket + 1
    /\ UNCHANGED <<env, now, gameRooms, playerSockets, gameLoops, timers, ack, hist>>

\* POST /api/rooms
PostRooms ==
    /\ "post-rooms" \in env.intents
    /\ gameRooms' = Put(gameRooms, now, NewRoom(now, now))
    /\ hist' = Put(hist, now, NewHist)
    /\ UNCHANGED <<env, now, nextSocket, sockets, playerSockets, gameLoops, timers, ack>>

\* the room join-room works on: the stored one, or a new one (lines 259-263)
RoomForJoin(roomId) ==
    IF roomId \in DOMAIN gameRooms THEN gameRooms[roomId] ELSE NewRoom(roomId, now)
HistForJoin(roomId) ==
    IF roomId \in DOMAIN gameRooms THEN hist[roomId] ELSE NewHist

OnJoinRoom(c, roomId, playerName) ==
    /\ "join-room" \in env.intents
    /\ c \in sockets
    /\ env.rejoin \/ c \notin DOMAIN playerSockets
    /\ roomId \in env.rooms
    /\ LET room == RoomForJoin(roomId)
           success == CanAdd(room)
       IN /\ gameRooms' = Put(gameRooms, roomId, AddPlayer(room, c, playerName))
          /\ playerSockets' =
                IF success
                THEN Put(playerSockets, c, [roomId |-> roomId, playerId |-> c])
                ELSE playerSockets
          /\ ack' = IF success THEN "success" ELSE "Room is full"
          /\ hist' = Put(hist, roomId,
                         IF success THEN HistJoin(HistForJoin(roomId), c)
                         ELSE HistForJoin(roomId))
    /\ UNCHANGED <<env, now, nextSocket, sockets, gameLoops, timers>>

\* the room a socket's intents are routed to, when there is one
Routed(c) ==
    /\ c \in sockets
    /\ c \in DOMAIN playerSockets
    /\ playerSockets[c].roomId \in DOMAIN gameRooms
RoomOf(c) == playerSockets[c].roomId

OnPlayerMove(c, data) ==
    /\ "player-move" \in env.intents
    /\ Routed(c)
    /\ gameRooms' = [gameRooms EXCEPT ![RoomOf(c)] =
            UpdatePlayerPosition(@, c, data.x, data.y, data.vx, data.vy)]
    /\ UNCHANGED <<env, now, nextSocket, sockets, playerSockets, gameLoops, timers, ack, hist>>

OnThrowBall(c, data) ==
    /\ "throw-ball" \in env.intents
    /\ Routed(c)
    /\ gameRooms' = [gameRooms EXCEPT ![RoomOf(c)] =
            ThrowBall(@, data.direction, data.power)]
    /\ hist' = [hist EXCEPT ![RoomOf(c)].thrower =
            IF gameRooms[RoomOf(c)].ball.owner # NoPlayer
            THEN gameRooms[RoomOf(c)].ball.owner ELSE @]
    /\ UNCHANGED <<env, now, nextSocket, sockets, playerSockets, gameLoops, timers, ack>>

\* Node's timers: the lowest handle not in use
FreeHandles == (1..MaxHandles) \ DOMAIN timers
NewHandle == CHOOSE h \in FreeHandles : \A k \in FreeHandles : h <= k

\* a startGameLoop without the test for a running loop
StartGameLoopAlways(roomId) ==
    <<Put(gameLoops, roomId, NewHandle),
      Put(timers, NewHandle, [room |-> roomId, due |-> FALSE])>>

\* startGameLoop(roomId): <<gameLoops, timers>> after the call
StartGameLoop(roomId) ==
    IF roomId \in DOMAIN gameLoops
    THEN <<gameLoops, timers>>
    ELSE <<Put(gameLoops, roomId, NewHandle),
           Put(timers, NewHandle, [room |-> roomId, due |-> FALSE])>>

OnStartGame(c) ==
    /\ "start-game" \in env.intents
    /\ Routed(c)
    /\ FreeHandles # {}
    /\ gameRooms' = [gameRooms EXCEPT ![RoomOf(c)] = StartGame(@, now)]
    /\ IF CanStart(gameRooms[RoomOf(c)])
       THEN /\ gameLoops' = StartGameLoop(RoomOf(c))[1]
            /\ timers' = StartGameLoop(RoomOf(c))[2]
       ELSE UNCHANGED <<gameLoops, timers>>
    /\ UNCHANGED <<env, now, nextSocket, sockets, playerSockets, ack, hist>>

PauseGame(room) == [room EXCEPT !.gameState = "paused"]
ResumeGame(room) == [room EXCEPT !.gameState = "playing"]

OnPauseGame(c) ==
    /\ "pause-game" \in env.intents
    /\ Routed(c)
    /\ gameRooms' = [gameRooms EXCEPT ![RoomOf(c)] = PauseGame(@)]
    /\ UNCHANGED <<env, now, nextSocket, sockets, playerSockets, gameLoops, timers, ack, hist>>

OnResumeGame(c) ==
    /\ "resume-game" \in env.intents
    /\ Routed(c)
    /\ gameRooms' = [gameRooms EXCEPT ![RoomOf(c)] = ResumeGame(@)]
    /\ UNCHANGED <<env, now, nextSocket, sockets, playerSockets, gameLoops, timers, ack, hist>>

\* lines 344-355 and 363-371: the socket's player leaves the room its
\* directory entry names; the room is deleted when that empties it.
\* a leave that keeps the room it has emptied
RoomsAfterLeaveKeepEmpty(c) ==
    IF RoomOf(c) \in DOMAIN gameRooms
    THEN [gameRooms EXCEPT ![RoomOf(c)] = RemovePlayer(@, c)]
    ELSE gameRooms

RoomsAfterLeave(c) ==
    IF RoomOf(c) \in DOMAIN gameRooms
    THEN LET left == RemovePlayer(gameRooms[RoomOf(c)], c)
         IN IF Len(left.players) = 0
            THEN Drop(gameRooms, RoomOf(c))
            ELSE [gameRooms EXCEPT ![RoomOf(c)] = left]
    ELSE gameRooms

HistAfterLeave(c) ==
    [r \in DOMAIN RoomsAfterLeave(c) |->
        IF r = RoomOf(c) THEN HistRemove(hist[r], c) ELSE hist[r]]

OnLeaveRoom(c) ==
    /\ "leave-room" \in env.intents
    /\ c \in sockets
    /\ c \in DOMAIN playerSockets
    /\ gameRooms' = RoomsAfterLeave(c)
    /\ hist' = HistAfterLeave(c)
    /\ playerSockets' = Drop(playerSockets, c)
    /\ UNCHANGED <<env, now, nextSocket, sockets, gameLoops, timers, ack>>

OnDisconnect(c) ==
    /\ "disconnect" \in env.intents
    /\ c \in sockets
    /\ sockets' = sockets \ {c}
    /\ IF c \in DOMAIN playerSockets
       THEN /\ gameRooms' = RoomsAfterLeave(c)
            /\ hist' = HistAfterLeave(c)
            /\ playerSockets' = Drop(playerSockets, c)
       ELSE UNCHANGED <<gameRooms, hist, playerSockets>>
    /\ UNCHANGED <<env, now, nextSocket, gameLoops, timers, ack>>

\* the ball of this step is taken out of play: it enters the basket range
EntersBasket(room, t) ==
    /\ room.gameState = "playing"
    /\ room.ball.owner = NoPlayer
    /\ InBasketRange(Walls(Integrate(room.ball,
                        (t - room.lastUpdate) \div MsPerSecond)))

\* lines 388-399: one firing of the interval of startGameLoop(roomId)
GameLoopTick(h) ==
    /\ h \in DOMAIN timers
    /\ timers[h].due
    /\ LET roomId == timers[h].room
       IN IF roomId \notin DOMAIN gameRooms
             \/ gameRooms[roomId].gameState # "playing"
          THEN /\ timers' = Drop(timers, h)
               /\ gameLoops' = Drop(gameLoops, roomId)
               /\ UNCHANGED <<gameRooms, hist>>
          ELSE /\ gameRooms' = [gameRooms EXCEPT ![roomId] = UpdateBall(@, now)]
               /\ timers' = [timers EXCEPT ![h].due = FALSE]
               /\ hist' = [hist EXCEPT ![roomId].thrower =
                    IF EntersBasket(gameRooms[roomId], now)
                       \/ gameRooms'[roomId].ball.owner # NoPlayer
                    THEN NoPlayer ELSE @]
               /\ UNCHANGED gameLoops
    /\ UNCHANGED <<env, now, nextSocket, sockets, playerSockets, ack>>

\* lines 405-416: the sweep of rooms without players
EmptyRooms == {r \in DOMAIN gameRooms : Len(gameRooms[r].players) = 0}

IdleRoomSweep ==
    /\ EmptyRooms # {}
    /\ gameRooms' = [r \in DOMAIN gameRooms \ EmptyRooms |-> gameRooms[r]]
    /\ hist' = [r \in DOMAIN gameRooms \ EmptyRooms |-> hist[r]]
    /\ gameLoops' = [r \in DOMAIN gameLoops \ EmptyRooms |-> gameLoops[r]]
    /\ timers' = [h \in DOMAIN timers \
                        {gameLoops[r] : r \in DOMAIN gameLoops \cap EmptyRooms}
                    |-> timers[h]]
    /\ UNCHANGED <<env, now, nextSocket, sockets, playerSockets, ack>>

\* a second passes: every live interval has come due
ClockAdvance ==
    /\ now < env.maxClock * MsPerSecond
    /\ now' = now + MsPerSecond
    /\ timers' = [h \in DOMAIN timers |-> [timers[h] EXCEPT !.due = TRUE]]
    /\ UNCHANGED <<env, nextSocket, sockets, gameRooms, playerSockets, gameLoops, ack, hist>>

Joins ==
    \E c \in sockets, roomId \in env.rooms, n \in PlayerNames :
        OnJoinRoom(c, roomId, n)
Moves == \E c \in sockets, data \in env.moves : OnPlayerMove(c, data)
Throws == \E c \in sockets, data \in env.throws : OnThrowBall(c, data)
Starts == \E c \in sockets : OnStartGame(c)
Pauses == \E c \in sockets : OnPauseGame(c)
Resumes == \E c \in sockets : OnResumeGame(c)
Leaves == \E c \in sockets : OnLeaveRoom(c)
Disconnects == \E c \in sockets : OnDisconnect(c)
Ticks == \E h \in DOMAIN timers : GameLoopTick(h)

Next ==
    \/ Connection
    \/ PostRooms
    \/ Joins
    \/ Moves
    \/ Throws
    \/ Starts
    \/ Pauses
    \/ Resumes
    \/ Leaves
    \/ Disconnects
    \/ Ticks
    \/ IdleRoomSweep
    \/ ClockAdvance

\* every kind of run
Spec == Init /\ [][Next]_vars

\* One kind of run each: the steps of Next that its inputs enable.
NextCrowd == Connection \/ Joins \/ Disconnects
InitCrowd == Init /\ env = CrowdEnv
SpecCrowd == InitCrowd /\ [][NextCrowd]_vars

NextPlay ==
    Connection \/ Joins \/ Moves \/ Throws \/ Starts \/ Ticks \/ ClockAdvance
InitPlay == Init /\ env = PlayEnv
SpecPlay == InitPlay /\ [][NextPlay]_vars

NextTurnover ==
    Connection \/ Joins \/ Moves \/ Starts \/ Leaves \/ Ticks \/ ClockAdvance
InitTurnover == Init /\ env = TurnoverEnv
SpecTurnover == InitTurnover /\ [][NextTurnover]_vars

NextLobby ==
    Connection \/ PostRooms \/ Joins \/ Leaves \/ Disconnects \/ IdleRoomSweep
InitLobby == Init /\ env = LobbyEnv
SpecLobby == InitLobby /\ [][NextLobby]_vars

NextMatch ==
    \/ Connection \/ PostRooms \/ Joins \/ Starts \/ Pauses \/ Resumes
    \/ Leaves \/ Disconnects \/ Ticks \/ IdleRoomSweep \/ ClockAdvance
InitMatch == Init /\ env = MatchEnv
SpecMatch == InitMatch /\ [][NextMatch]_vars

NextShot ==
    Connection \/ Joins \/ Moves \/ Throws \/ Starts \/ Ticks \/ ClockAdvance
InitShot == Init /\ env = ShotEnv
SpecShot == InitShot /\ [][NextShot]_vars

NextBasket ==
    Connection \/ Joins \/ Moves \/ Throws \/ Starts \/ Ticks \/ ClockAdvance
InitBasket == Init /\ env = BasketEnv
SpecBasket == InitBasket /\ [][NextBasket]_vars

NextForfeit ==
    \/ Connection \/ Joins \/ Moves \/ Starts \/ Leaves \/ Disconnects
    \/ Ticks \/ ClockAdvance
InitForfeit == Init /\ env = ForfeitEnv
SpecForfeit == InitForfeit /\ [][NextForfeit]_vars

TypeOK ==
    /\ env \in Envs
    /\ sockets \subseteq 1..(nextSocket - 1)
    /\ DOMAIN hist = DOMAIN gameRooms

---------------------------------------------------------------------------
(* Claims                                                                  *)
Rooms == DOMAIN gameRooms
Players(r) == gameRooms[r].players
TeamCount(r, team) ==
    Cardinality({i \in 1..Len(Players(r)) : Players(r)[i].team = team})

\* C1: no room ever holds more than maxPlayers (6) players, and a join-room
\* on a room that holds 6 players is answered "Room is full" and changes
\* neither a room (players, ball, score, phase) nor the session directory.
C1_CapacityStep ==
    \A c \in sockets, r \in Rooms, n \in PlayerNames :
        (OnJoinRoom(c, r, n) /\ Len(Players(r)) >= 6)
            => /\ ack' = "Room is full"
               /\ UNCHANGED <<gameRooms, playerSockets>>
C1_Capacity ==
    /\ [](\A r \in Rooms : Len(Players(r)) <= 6)
    /\ [][C1_CapacityStep]_vars
\* a join was refused by a room with 6 players
C1_Witness ==
    \E r \in Rooms : Len(Players(r)) = 6 /\ ack = "Room is full"

\* the team a join-room of c in r has just assigned
JoinedTeam(c, r) == Get(gameRooms'[r].players, c).team
\* the number of this join among the successful joins of r; exact while
\* below env.maxJoins
JoinNumber(r) == hist'[r].joins

\* C2 as stated: the joins 1 to 3 of a room get team1 and the joins 4 to 6
\* get team2, whatever leaves and disconnects come between.
C2_TeamByJoinOrderStep ==
    \A c \in sockets, r \in env.rooms, n \in PlayerNames :
        (OnJoinRoom(c, r, n) /\ ack' = "success" /\ JoinNumber(r) < env.maxJoins
            /\ JoinNumber(r) <= 6)
            => JoinedTeam(c, r) = IF JoinNumber(r) <= 3 THEN "team1" ELSE "team2"
C2_TeamBySizeStep ==
    \A c \in sockets, r \in env.rooms, n \in PlayerNames :
        (OnJoinRoom(c, r, n) /\ ack' = "success")
            => JoinedTeam(c, r) =
                 IF Len(RoomForJoin(r).players) < 3 THEN "team1" ELSE "team2"
C3_ExclusivePossession ==
    \A r \in Rooms :
        /\ Cardinality({i \in 1..Len(Players(r)) : Players(r)[i].hasBall}) <= 1
        /\ \A i \in 1..Len(Players(r)) :
              Players(r)[i].hasBall => gameRooms[r].ball.owner = Players(r)[i].id
\* a player holds the ball while a second player stands in pickup range
C3_Witness ==
    \E r \in Rooms : \E i, j \in 1..Len(Players(r)) :
        /\ i # j
        /\ Players(r)[i].hasBall
        /\ InPickupRange(gameRooms[r], i)
        /\ InPickupRange(gameRooms[r], j)

\* C4: ball.owner is null or the key of a player of the room; so the
\* removal of the owner leaves it null.
C4_OwnerIsPlayer ==
    \A r \in Rooms :
        gameRooms[r].ball.owner = NoPlayer
        \/ Has(Players(r), gameRooms[r].ball.owner)
\* the owner has left: the ball lies without owner and without velocity
\* where the owner carried it
C4_Witness ==
    \E r \in Rooms :
        /\ gameRooms[r].ball.owner = NoPlayer
        /\ gameRooms[r].ball.x # CENTER_X
        /\ gameRooms[r].ball.vx = 0
        /\ gameRooms[r].ball.vy = 0
        /\ Len(Players(r)) >= 1

\* C5: a step in which the ball thrown by a player still in the room enters
\* the basket range adds 2 to the score of the thrower's team and 2 to the
\* thrower's own score.
C5_BasketScoresStep ==
    \A h \in DOMAIN timers : \A r \in Rooms :
        (/\ GameLoopTick(h)
         /\ timers[h].room = r
         /\ EntersBasket(gameRooms[r], now)
         /\ hist[r].thrower # NoPlayer
         /\ Has(Players(r), hist[r].thrower))
        => LET me == Get(Players(r), hist[r].thrower)
           IN /\ gameRooms'[r].score[me.team] = gameRooms[r].score[me.team] + 2
              /\ Get(gameRooms'[r].players, me.id).score = me.score + 2
C5_BasketScores == [][C5_BasketScoresStep]_vars

\* C6: a room in phase playing has a tick timer registered for its id.
C6_PlayingHasTimer ==
    \A r \in Rooms :
        gameRooms[r].gameState = "playing"
            => r \in DOMAIN gameLoops /\ gameLoops[r] \in DOMAIN timers

TimersOf(r) == {h \in DOMAIN timers : timers[h].room = r}

\* C7: at most one timer is live per room id, and a live timer is the one
\* the active-timer map records for its room id.
C7_OneTimerPerRoom ==
    /\ \A h \in DOMAIN timers :
          /\ timers[h].room \in DOMAIN gameLoops
          /\ gameLoops[timers[h].room] = h
          /\ Cardinality(TimersOf(timers[h].room)) <= 1
\* the timer of a room that is gone serves the room made anew under its id
C7_Witness ==
    \E h \in DOMAIN timers :
        /\ timers[h].room \in Rooms
        /\ gameRooms[timers[h].room].gameState = "waiting"
        /\ gameRooms[timers[h].room].gameStartTime = NoTime

Disconnected == (1..(nextSocket - 1)) \ sockets

\* C8: once the disconnect of a socket has been processed, no room holds a
\* player with that socket's id.
C8_GoneAfterDisconnect ==
    \A c \in Disconnected : \A r \in Rooms : ~Has(Players(r), c)

\* C9: start-game on a room with fewer than 2 players changes no room and
\* starts no timer; with 2 or more players it leaves the room playing.
C9_StartGameStep ==
    \A c \in sockets :
        (OnStartGame(c) =>
            IF Len(Players(RoomOf(c))) < 2
            THEN UNCHANGED <<gameRooms, gameLoops, timers>>
            ELSE /\ gameRooms'[RoomOf(c)].gameState = "playing"
                 /\ RoomOf(c) \in DOMAIN gameLoops')
C9_StartGame == [][C9_StartGameStep]_vars
\* a game started with exactly 2 players
C9_Witness ==
    \E r \in Rooms :
        /\ Len(Players(r)) = 2
        /\ gameRooms[r].gameState = "playing"
        /\ gameRooms[r].gameStartTime = now
        /\ r \in DOMAIN gameLoops

\* C10: once set, the gameStartTime of a room keeps its value.
C10_StartTimeSetOnceStep ==
    \A r \in Rooms \cap DOMAIN gameRooms' :
        (gameRooms[r].gameStartTime # NoTime
            /\ gameRooms'[r].gameStartTime # NoTime)
        => gameRooms'[r].gameStartTime = gameRooms[r].gameStartTime
C10_StartTimeSetOnce == [][C10_StartTimeSetOnceStep]_vars

\* the ball of the room socket c is routed to, before and after a step
BallOf(c) == gameRooms[RoomOf(c)].ball
BallAfter(c) == gameRooms'[RoomOf(c)].ball

\* C11: a throw on a room whose ball has an owner leaves the ball without
\* owner and the owner without hasBall, does not move the ball, and for a
\* power in [0,100] sets the velocity to (cos, sin)(direction) * power/100
\* (in hundredths: * power; direction 0 and power 100 give vx = 1.00,
\* vy = 0); a throw on a room whose ball has no owner changes no room.
C11_ThrowStep ==
    \A c \in sockets, data \in env.throws :
        OnThrowBall(c, data) =>
            IF BallOf(c).owner # NoPlayer
            THEN /\ BallAfter(c).owner = NoPlayer
                 /\ ~Get(gameRooms'[RoomOf(c)].players, BallOf(c).owner).hasBall
                 /\ BallAfter(c).x = BallOf(c).x
                 /\ BallAfter(c).y = BallOf(c).y
                 /\ data.power \in 0..100 =>
                        /\ BallAfter(c).vx = Cos(data.direction) * data.power
                        /\ BallAfter(c).vy = Sin(data.direction) * data.power
            ELSE UNCHANGED gameRooms
C11_Throw == [][C11_ThrowStep]_vars
\* the ball was thrown straight down at half power by a player of the
\* room: it lies where the thrower carried it, with velocity (0, 0.50)
C11_Witness ==
    \E r \in Rooms :
        /\ gameRooms[r].ball.owner = NoPlayer
        /\ gameRooms[r].ball.vx = 0
        /\ gameRooms[r].ball.vy = 50
        /\ gameRooms[r].ball.x = 500 + 15
        /\ hist[r].thrower # NoPlayer
        /\ ~Get(Players(r), hist[r].thrower).hasBall

\* C12: the strength a throw applies to the direction vector lies in
\* [0,1] for every power: the velocity after a throw of an owned ball is
\* (cos, sin)(direction) * s for some s from 0 to 1.00.
C12_StrengthInUnitRangeStep ==
    \A c \in sockets, data \in env.throws :
        (OnThrowBall(c, data) /\ BallOf(c).owner # NoPlayer)
            => \E s \in 0..Hundredths :
                  /\ BallAfter(c).vx = Cos(data.direction) * s
                  /\ BallAfter(c).vy = Sin(data.direction) * s
C12_StrengthInUnitRange == [][C12_StrengthInUnitRangeStep]_vars

\* C14: when the owner of the ball leaves or disconnects and the room stays,
\* the ball has no owner and keeps its position, velocity and inBasket,
\* and the score and the phase of the room are unchanged.
C14_OwnerGoneStep ==
    \A c \in sockets :
        (/\ OnLeaveRoom(c) \/ OnDisconnect(c)
         /\ Routed(c)
         /\ BallOf(c).owner = c
         /\ RoomOf(c) \in DOMAIN gameRooms')
        => /\ BallAfter(c) = [BallOf(c) EXCEPT !.owner = NoPlayer]
           /\ gameRooms'[RoomOf(c)].score = gameRooms[RoomOf(c)].score
           /\ gameRooms'[RoomOf(c)].gameState = gameRooms[RoomOf(c)].gameState
C14_OwnerGone == [][C14_OwnerGoneStep]_vars
\* the owner has gone for good: the ball lies at rest and without owner
\* where the owner carried it, and the game goes on
C14_Witness ==
    \E r \in Rooms :
        /\ gameRooms[r].gameState = "playing"
        /\ gameRooms[r].ball =
              [NewBall EXCEPT !.x = 500 + 15, !.y = 300 + 15]
        /\ Disconnected # {}
        /\ \A i \in 1..Len(Players(r)) : ~Players(r)[i].hasBall

\* C18: a throw-ball sent by a socket that is not the owner of the ball of
\* its room leaves the owner and the velocity of that ball unchanged.
C18_OnlyOwnerThrowsStep ==
    \A c \in sockets, data \in env.throws :
        (OnThrowBall(c, data) /\ BallOf(c).owner # c)
            => /\ BallAfter(c).owner = BallOf(c).owner
               /\ BallAfter(c).vx = BallOf(c).vx
               /\ BallAfter(c).vy = BallOf(c).vy
C18_OnlyOwnerThrows == [][C18_OnlyOwnerThrowsStep]_vars

\* a room instance some join-room has succeeded on
HasHadPlayer(r) == hist[r].joins >= 1

\* C13: a leave-room or disconnect that removes the last player of a room
\* deletes the room from the registry in that step, and no room that has
\* had a player is in the registry with zero players.
C13_LastPlayerStep ==
    \A c \in sockets :
        (/\ OnLeaveRoom(c) \/ OnDisconnect(c)
         /\ Routed(c)
         /\ Ids(Players(RoomOf(c))) = {c})
        => RoomOf(c) \notin DOMAIN gameRooms'
C13_EmptyRoomDeleted ==
    /\ [](\A r \in Rooms : HasHadPlayer(r) => Len(Players(r)) >= 1)
    /\ [][C13_LastPlayerStep]_vars
\* every socket that joined has left or disconnected, and the registry
\* lists no room
C13_Witness ==
    /\ ack = "success"
    /\ nextSocket > 1
    /\ playerSockets = EmptyMap
    /\ Rooms = {}

\* C15: a room in phase playing has a gameStartTime.
C15_PlayingHasStartTime ==
    \A r \in Rooms :
        gameRooms[r].gameState = "playing" => gameRooms[r].gameStartTime # NoTime

\* C17: no room has more than 3 players on team1 or more than 3 players
\* on team2.
C17_TeamsOfThree ==
    \A r \in Rooms : TeamCount(r, "team1") <= 3 /\ TeamCount(r, "team2") <= 3

\* C19: the player ball.owner names has hasBall.
C19_OwnerHasBall ==
    \A r \in Rooms :
        (gameRooms[r].ball.owner # NoPlayer
            /\ Has(Players(r), gameRooms[r].ball.owner))
        => Get(Players(r), gameRooms[r].ball.owner).hasBall

\* C20: every entry of the session directory names a room of the registry
\* whose players contain the entry's playerId.
C20_DirectoryConsistent ==
    \A c \in DOMAIN playerSockets :
        /\ playerSockets[c].roomId \in Rooms
        /\ Has(Players(playerSockets[c].roomId), playerSockets[c].playerId)

\* C16: a physics step in which the free ball ends within 30 units of the
\* basket leaves the ball at centre field with zero velocity, and leaves
\* hasBall with no player but one the pickup scan of that step has then
\* given the ball at centre field; inBasket is false in every state.
C16_BasketResetStep ==
    \A h \in DOMAIN timers : \A r \in Rooms :
        (/\ timers[h].room = r
         /\ EntersBasket(gameRooms[r], now)
         /\ GameLoopTick(h))
        => LET after == gameRooms'[r]
           IN /\ after.ball.x = CENTER_X
              /\ after.ball.y = CENTER_Y
              /\ after.ball.vx = 0
              /\ after.ball.vy = 0
              /\ \A i \in 1..Len(after.players) :
                    after.players[i].hasBall =>
                        /\ after.ball.owner = after.players[i].id
                        /\ Within(CENTER_X, CENTER_Y, after.players[i].x,
                                  after.players[i].y, 35)
C16_BasketReset ==
    /\ [](\A r \in Rooms : ~gameRooms[r].ball.inBasket)
    /\ [][C16_BasketResetStep]_vars
\* the last physics step of a game found the free ball at the basket: the
\* ball is as new (a free ball left in play by a step has a velocity), and
\* a player stands where a throw along the x axis reaches the basket
C16_Witness ==
    \E r \in Rooms :
        /\ gameRooms[r].gameState = "playing"
        /\ gameRooms[r].lastUpdate > gameRooms[r].gameStartTime
        /\ gameRooms[r].ball = NewBall
        /\ \E i \in 1..Len(Players(r)) :
              InBasketRange([x |-> Players(r)[i].x + 15 + BALL_SPEED,
                             y |-> Players(r)[i].y + 15])

=============================================================================
